---- MODULE Spec2Model ----
(***************************************************************************)
(* Model of pod-cleaner: the cleanup cycle of PodCleaner (single-flight    *)
(* guard, decision cache, listing fallback, delete loop, cache sweep), the *)
(* classifier should_clean_pod, the notifier NotificationManager and the   *)
(* health monitors that clean_pod starts.                                  *)
(*                                                                         *)
(* Time is the wall clock in seconds (time.time(), datetime.now()).        *)
(***************************************************************************)
EXTENDS Integers, Sequences, FiniteSets, TLC

(***************************************************************************)
(* Bounds of the model.                                                    *)
(***************************************************************************)
\* the clock advances in steps of Tick seconds, up to MaxTime
Tick == 150
MaxTime == 450
\* run_cleanup is called at most MaxCalls times in one behaviour
MaxCalls == 2
\* a listing returns at most MaxList pods
MaxList == 2
\* at most MaxMonitors monitor threads are started in one behaviour
MaxMonitors == 1
\* a pod snapshot carries at most MaxInit init-container statuses and
\* MaxContainers container statuses
MaxInit == 2
MaxContainers == 1
\* send_notification is called at most MaxNotify times in one behaviour
MaxNotify == 3
\* should_clean_pod is called directly at most MaxLookups times in one behaviour
MaxLookups == 3
\* check_pod_health_after_restart is called directly at most MaxWatchers times
MaxWatchers == 1
\* at most MaxConcurrent monitors run side by side
MaxConcurrent == 2

(***************************************************************************)
(* Program constants.                                                      *)
(***************************************************************************)
cache_ttl == 300
notification_cooldown == 1800
\* MAX_HEALTH_CHECKS, the default PodCleaner passes to the monitor
max_checks == 3

\* Config.excluded_namespaces, the configured default (never read by PodCleaner)
excluded_namespaces == {"kube-system", "kube-public", "kube-node-lease"}

(***************************************************************************)
(* Pod snapshots as the Kubernetes client returns them.                    *)
(***************************************************************************)
Callers == {"c1", "c2"}
NoValue == "None"

Namespaces == {"default", "kube-public", "kube-system"}
\* one pod name per namespace: an identity is (namespace, name)
PodName(ns) ==
    CASE ns = "default" -> "web"
      [] ns = "kube-public" -> "info"
      [] OTHER -> "dns"

Phases == {"Running", "Pending", "Failed", "Succeeded", "Unknown", NoValue}

\* init_status.state: None, running, terminated with exit code 0 or 1, waiting
InitStates == {"none", "running", "terminated0", "terminated1", "waiting"}
\* status.state of a container: None, running, terminated, or waiting with a reason
WaitingReasons == {"PodInitializing", "ContainerCreating", "CrashLoopBackOff"}
ContainerStates == {"none", "running", "terminated"} \cup WaitingReasons

SeqsUpTo(S, n) == UNION {[1..k -> S] : k \in 0..n}

Pod(ns, ph, ini, cs) ==
    [namespace |-> ns, name |-> PodName(ns), phase |-> ph,
     init_container_statuses |-> ini, container_statuses |-> cs]

\* every snapshot within the bounds
Snapshots ==
    {Pod(ns, ph, ini, cs) :
        ns \in Namespaces, ph \in Phases,
        ini \in SeqsUpTo(InitStates, MaxInit),
        cs \in SeqsUpTo(ContainerStates, MaxContainers)}

\* the snapshots the modelled cluster serves in listings
ClusterPods ==
    {Pod(ns, ph, <<>>, cs) :
        ns \in Namespaces, ph \in {"Running", "Failed"},
        cs \in {<<>>}}

CacheKey(pod) == <<pod.namespace, pod.name>>
Keys == {<<ns, PodName(ns)>> : ns \in Namespaces}

(***************************************************************************)
(* State.                                                                  *)
(***************************************************************************)
VARIABLES
    clock,              \* wall clock, seconds
    lock,               \* PodCleaner.lock: the caller holding it, or NoValue
    is_running,         \* PodCleaner.is_running
    cleaned_pods,       \* PodCleaner.cleaned_pods: sequence of pod_info
    pod_cache,          \* PodCleaner.pod_cache: cache_key -> [result, time]
    sent_notifications, \* NotificationManager.sent_notifications: pod_key -> time
    env_health_checks,  \* ENABLE_HEALTH_CHECKS is 'true'
    pc,                 \* where each caller of run_cleanup stands
    target_pods,        \* per caller: the candidates not yet processed
    cleaned_count,      \* per caller: the local cleaned_count
    monitors,           \* the monitor threads started, in start order
    calls,              \* number of run_cleanup calls made so far
    outcome,            \* per caller: its latest run_cleanup call is running,
                        \* was skipped, raised or has failed; else "none"
    listing,            \* per caller: which listing its cycle in progress runs on
    last_delete,        \* the latest delete_pod call of the cycle in progress
    call,               \* the latest direct should_clean_pod call, if any
    written,            \* per cache_key: the latest such call, and the latest
                        \* one that evaluated the rules
    lookups,            \* number of direct should_clean_pod calls so far
    notif,              \* the latest send_notification call
    attempts,           \* per pod_key: times of the transport attempts
    processed,          \* the iterations of the loop of the cycle in progress:
                        \* the pod, the decision, whether it was evaluated and
                        \* stored in the cache, and what delete_pod answered
    fetched,            \* what the latest _get_pod of a monitor returned
    failed_last         \* the identities whose delete failed in the cycle that
                        \* ended last

vars == <<clock, lock, is_running, cleaned_pods, pod_cache, sent_notifications,
          env_health_checks, pc, target_pods, cleaned_count, monitors, calls,
          outcome, listing, last_delete, call, written, lookups, notif,
          attempts, processed, fetched, failed_last>>

cleanerVars == <<lock, is_running, cleaned_pods, env_health_checks, pc,
                 target_pods, cleaned_count, monitors, calls, outcome, listing,
                 last_delete, processed, failed_last>>
cacheVars == <<pod_cache>>
callVars == <<call, written, lookups>>
notifyVars == <<sent_notifications, notif, attempts>>
monitorVars == <<fetched>>

(***************************************************************************)
(* PodCleaner.should_clean_pod                                             *)
(***************************************************************************)
InitRunning(s) == s = "running"
InitTerminated(s) == s \in {"terminated0", "terminated1"}
ExitCode(s) == IF s = "terminated0" THEN 0 ELSE 1

\* the exit-code test inverted
InitStatusSparesZeroExit(s) ==
    /\ s # "none"
    /\ \/ InitRunning(s)
       \/ InitTerminated(s) /\ ExitCode(s) = 0

\* the branch of the init-container loop that returns False (lines 54-61)
InitStatusSpares(s) ==
    /\ s # "none"
    /\ \/ InitRunning(s)
       \/ InitTerminated(s) /\ ~(ExitCode(s) = 0)

\* for init_status in init_statuses: TRUE when the loop returns False
RECURSIVE InitLoopReturns(_, _)
InitLoopReturns(init_statuses, i) ==
    IF i > Len(init_statuses) THEN FALSE
    ELSE IF InitStatusSpares(init_statuses[i]) THEN TRUE
    ELSE InitLoopReturns(init_statuses, i + 1)

\* the branch of the container loop that returns False (lines 66-69)
ContainerStatusSpares(s) ==
    /\ s # "none"
    /\ s \in WaitingReasons
    /\ s \in {"PodInitializing", "ContainerCreating"}

\* for status in container_statuses: TRUE when the loop returns False
RECURSIVE ContainerLoopReturns(_, _)
ContainerLoopReturns(container_statuses, i) ==
    IF i > Len(container_statuses) THEN FALSE
    ELSE IF ContainerStatusSpares(container_statuses[i]) THEN TRUE
    ELSE ContainerLoopReturns(container_statuses, i + 1)

\* the namespace test of should_clean_pod
SkippedNamespace(ns) == ns = "kube-system"

\* lines 37-77: the decision computed when the cache does not answer
EvaluateRules(pod) ==
    IF SkippedNamespace(pod.namespace) THEN FALSE
    ELSE IF pod.phase = "Running" THEN FALSE
    ELSE IF pod.phase = "Pending" THEN
        IF InitLoopReturns(pod.init_container_statuses, 1) THEN FALSE
        ELSE IF ContainerLoopReturns(pod.container_statuses, 1) THEN FALSE
        ELSE TRUE
    ELSE TRUE

\* an entry aged exactly cache_ttl still answers
CacheFreshInclusive(cached_time, now) == now - cached_time <= cache_ttl

\* line 34: the cached entry still answers
CacheFresh(cached_time, now) == now - cached_time < cache_ttl

CacheHit(pod, cache, now) ==
    /\ CacheKey(pod) \in DOMAIN cache
    /\ CacheFresh(cache[CacheKey(pod)].time, now)

CachePut(cache, key, result, now) ==
    [k \in DOMAIN cache \cup {key} |->
        IF k = key THEN [result |-> result, time |-> now] ELSE cache[k]]

\* a cache hit that restarts the entry's time to live
should_clean_pod_refreshing(pod, cache, now) ==
    IF CacheHit(pod, cache, now)
    THEN [result |-> cache[CacheKey(pod)].result,
          cache |-> CachePut(cache, CacheKey(pod), cache[CacheKey(pod)].result, now),
          evaluated |-> FALSE]
    ELSE [result |-> EvaluateRules(pod),
          cache |-> CachePut(cache, CacheKey(pod), EvaluateRules(pod), now),
          evaluated |-> TRUE]

\* should_clean_pod(pod) at time now: the value returned, the cache it leaves,
\* and whether control went past the cache check
should_clean_pod(pod, cache, now) ==
    IF CacheHit(pod, cache, now)
    THEN [result |-> cache[CacheKey(pod)].result, cache |-> cache,
          evaluated |-> FALSE]
    ELSE [result |-> EvaluateRules(pod),
          cache |-> CachePut(cache, CacheKey(pod), EvaluateRules(pod), now),
          evaluated |-> TRUE]

(***************************************************************************)
(* PodCleaner._clean_old_cache_entries                                     *)
(***************************************************************************)
Expired(timestamp, current_time) == current_time - timestamp > cache_ttl

clean_old_cache_entries(cache, current_time) ==
    [k \in {key \in DOMAIN cache : ~Expired(cache[key].time, current_time)} |->
        cache[k]]

(***************************************************************************)
(* The cluster API as the cycle sees it.                                   *)
(***************************************************************************)
DistinctIdentities(items) ==
    \A i, j \in 1..Len(items) : i # j => CacheKey(items[i]) # CacheKey(items[j])

\* what list_pod_for_all_namespaces can return: pods of distinct identities
Listings == {items \in SeqsUpTo(ClusterPods, MaxList) : DistinctIdentities(items)}

\* the server applies field_selector status.phase!=Running
MatchesFieldSelector(items) ==
    \A i \in 1..Len(items) : items[i].phase # "Running"

\* line 158: target_pods
TargetPods(pods) == SelectSeq(pods, LAMBDA pod : pod.namespace # "kube-system")

PodInfo(pod) == [namespace |-> pod.namespace, name |-> pod.name, phase |-> pod.phase]

\* no delete_pod call yet in this cycle
NoDelete == <<>>

(***************************************************************************)
(* Initial state: PodCleaner.__init__ and NotificationManager.__init__     *)
(***************************************************************************)
\* no should_clean_pod call, no send_notification call yet
NoCall == <<>>
NoNotif == <<>>

EmptyMap == [k \in {} |-> 0]

Init ==
    /\ clock = 0
    /\ lock = NoValue
    /\ is_running = FALSE
    /\ cleaned_pods = <<>>
    /\ pod_cache = EmptyMap
    /\ sent_notifications = EmptyMap
    /\ env_health_checks \in BOOLEAN
    /\ pc = [t \in Callers |-> "idle"]
    /\ target_pods = [t \in Callers |-> <<>>]
    /\ cleaned_count = [t \in Callers |-> 0]
    /\ monitors = <<>>
    /\ calls = 0
    /\ outcome = [t \in Callers |-> "none"]
    /\ listing = [t \in Callers |-> "none"]
    /\ last_delete = NoDelete
    /\ call = NoCall
    /\ written = [k \in Keys |-> [asked |-> <<>>, evaluated |-> <<>>]]
    /\ lookups = 0
    /\ notif = NoNotif
    /\ attempts = [k \in Keys |-> <<>>]
    /\ processed = <<>>
    /\ fetched = <<>>
    /\ failed_last = {}

(***************************************************************************)
(* time.time() / datetime.now() move on                                    *)
(***************************************************************************)
ClockTick ==
    /\ clock + Tick <= MaxTime
    /\ clock' = clock + Tick
    /\ UNCHANGED <<cleanerVars, cacheVars, callVars, notifyVars, monitorVars>>

(***************************************************************************)
(* PodCleaner.run_cleanup                                                  *)
(***************************************************************************)
\* line 135: with self.lock (entered by a new call of run_cleanup)
GuardEnter(t) ==
    /\ pc[t] = "idle"
    /\ calls < MaxCalls
    /\ lock = NoValue
    /\ lock' = t
    /\ pc' = [pc EXCEPT ![t] = "guard"]
    /\ calls' = calls + 1
    /\ outcome' = [outcome EXCEPT ![t] = "none"]
    /\ listing' = [listing EXCEPT ![t] = "none"]
    /\ UNCHANGED <<clock, is_running, cleaned_pods, env_health_checks, target_pods,
                   cleaned_count, monitors, last_delete, processed, failed_last, cacheVars, callVars,
                   notifyVars, monitorVars>>

\* the single-flight test left out
AlreadyRunningIgnored == FALSE

\* line 136: the test of the single-flight flag
AlreadyRunning == is_running

\* cleaned_pods reset before the single-flight test instead of after it
GuardTestResetFirst(t) ==
    /\ pc[t] = "guard"
    /\ lock = t
    /\ lock' = NoValue
    /\ cleaned_pods' = <<>>
    /\ IF AlreadyRunning
       THEN /\ pc' = [pc EXCEPT ![t] = "idle"]
            /\ outcome' = [outcome EXCEPT ![t] = "skipped"]
            /\ UNCHANGED is_running
       ELSE /\ is_running' = TRUE
            /\ pc' = [pc EXCEPT ![t] = "list"]
            /\ outcome' = [outcome EXCEPT ![t] = "running"]
    /\ UNCHANGED <<clock, env_health_checks, target_pods, cleaned_count, monitors,
                   calls, listing, last_delete, processed, failed_last, cacheVars, callVars, notifyVars, monitorVars>>

\* lines 136-141: skip, or take the cycle; the lock is released either way
GuardTest(t) ==
    /\ pc[t] = "guard"
    /\ lock = t
    /\ lock' = NoValue
    /\ IF AlreadyRunning
       THEN /\ pc' = [pc EXCEPT ![t] = "idle"]
            /\ outcome' = [outcome EXCEPT ![t] = "skipped"]
            /\ UNCHANGED <<is_running, cleaned_pods>>
       ELSE /\ is_running' = TRUE
            /\ cleaned_pods' = <<>>
            /\ pc' = [pc EXCEPT ![t] = "list"]
            /\ outcome' = [outcome EXCEPT ![t] = "running"]
    /\ UNCHANGED <<clock, env_health_checks, target_pods, cleaned_count, monitors,
                   calls, listing, last_delete, processed, failed_last, cacheVars, callVars, notifyVars, monitorVars>>

\* _get_pods_optimized without its except branch: a failure of the filtered
\* listing leaves the try block of run_cleanup
GetPodsNoFallback(t) ==
    /\ pc[t] = "list"
    /\ \E mode \in {"filtered", "fallback", "failed"} : \E items \in Listings :
        /\ mode = "filtered" => MatchesFieldSelector(items)
        /\ mode # "filtered" => items = <<>>
        /\ target_pods' = [target_pods EXCEPT ![t] = TargetPods(items)]
        /\ listing' = [listing EXCEPT ![t] = mode]
        /\ pc' = [pc EXCEPT ![t] = IF mode = "filtered" THEN "loop" ELSE "finally"]
        /\ outcome' = [outcome EXCEPT ![t] =
                          IF mode = "filtered" THEN @ ELSE "raised"]
    /\ cleaned_count' = [cleaned_count EXCEPT ![t] = 0]
    /\ UNCHANGED <<clock, lock, is_running, cleaned_pods, env_health_checks,
                   monitors, calls, last_delete, processed, failed_last, cacheVars, callVars,
                   notifyVars, monitorVars>>

\* lines 148-164 with _get_pods_optimized and list_all_pods: the filtered
\* listing; when it fails the full listing; when that fails too, the empty
\* list that list_all_pods returns; then target_pods
GetPods(t) ==
    /\ pc[t] = "list"
    /\ \E mode \in {"filtered", "fallback", "failed"} : \E items \in Listings :
        /\ mode = "filtered" => MatchesFieldSelector(items)
        /\ mode = "failed" => items = <<>>
        /\ target_pods' = [target_pods EXCEPT ![t] = TargetPods(items)]
        /\ listing' = [listing EXCEPT ![t] = mode]
    /\ cleaned_count' = [cleaned_count EXCEPT ![t] = 0]
    /\ pc' = [pc EXCEPT ![t] = "loop"]
    /\ UNCHANGED <<clock, lock, is_running, cleaned_pods, env_health_checks,
                   monitors, calls, outcome, last_delete, processed, failed_last, cacheVars,
                   callVars, notifyVars, monitorVars>>

\* lines 112-131: a thread that runs check_pod_health_after_restart; it has
\* fetched the pod check_count times and called send_notification notified times
NewMonitor(pod_info) ==
    [namespace |-> pod_info.namespace, name |-> pod_info.name,
     phase |-> pod_info.phase, max_checks |-> max_checks, check_count |-> 0,
     notified |-> 0, state |-> "checking"]

\* the monitor started whatever ENABLE_HEALTH_CHECKS says
HealthChecksAlways == TRUE

\* line 100: ENABLE_HEALTH_CHECKS is 'true'
HealthChecksEnabled == env_health_checks

\* the record appended before delete_pod has answered
CleanedRegardless(pods, pod_info, success) == Append(pods, pod_info)

\* lines 94-98: cleaned_pods after delete_pod has answered
Cleaned(pods, pod_info, success) ==
    IF success THEN Append(pods, pod_info) ELSE pods

\* the loop taking the candidates from the end of the list
NextCandidateLast(pods) == pods[Len(pods)]

\* line 165: for pod in target_pods: the pod of the iteration
NextCandidate(pods) == Head(pods)

\* the loop staying on a pod until it has been cleaned
AfterIterationRetry(pods, cleaned) == IF cleaned THEN Tail(pods) ELSE pods

\* line 165: the pods left for the iterations to come, whether or not this
\* one has cleaned its pod
AfterIteration(pods, cleaned) == Tail(pods)

\* lines 165-168: one iteration of the loop: should_clean_pod, then clean_pod
\* with delete_pod succeeding or failing
ProcessPod(t) ==
    /\ pc[t] = "loop"
    /\ target_pods[t] # <<>>
    /\ LET pod == NextCandidate(target_pods[t])
           decision == should_clean_pod(pod, pod_cache, clock)
       IN /\ pod_cache' = decision.cache
          /\ IF decision.result
             THEN \E success \in BOOLEAN :
                    /\ target_pods' = [target_pods EXCEPT ![t] =
                                          AfterIteration(target_pods[t], success)]
                    /\ last_delete' = <<[pod |-> pod, success |-> success]>>
                    /\ processed' = Append(processed,
                           [pod |-> pod, decision |-> TRUE,
                            evaluated |-> decision.evaluated,
                            deleted |-> IF success THEN "ok" ELSE "failed"])
                    /\ cleaned_pods' = Cleaned(cleaned_pods, PodInfo(pod), success)
                    /\ IF success
                       THEN /\ cleaned_count' =
                                 [cleaned_count EXCEPT ![t] = cleaned_count[t] + 1]
                            /\ IF HealthChecksEnabled
                               THEN /\ Len(monitors) < MaxMonitors
                                    /\ monitors' =
                                         Append(monitors, NewMonitor(PodInfo(pod)))
                               ELSE UNCHANGED monitors
                       ELSE UNCHANGED <<cleaned_count, monitors>>
             ELSE /\ target_pods' = [target_pods EXCEPT ![t] =
                                          AfterIteration(target_pods[t], FALSE)]
                  /\ processed' = Append(processed,
                           [pod |-> pod, decision |-> FALSE,
                            evaluated |-> decision.evaluated,
                            deleted |-> "none"])
                  /\ UNCHANGED <<last_delete, cleaned_pods, cleaned_count,
                                 monitors>>
    /\ UNCHANGED <<clock, lock, is_running, env_health_checks, pc, calls, outcome,
                   listing, failed_last, callVars, notifyVars, monitorVars>>

\* the end of the loop without the call of _clean_old_cache_entries
EndLoopNoSweep(t) ==
    /\ pc[t] = "loop"
    /\ target_pods[t] = <<>>
    /\ pc' = [pc EXCEPT ![t] = "finally"]
    /\ UNCHANGED <<clock, lock, is_running, cleaned_pods, env_health_checks,
                   target_pods, cleaned_count, monitors, calls, outcome, listing,
                   last_delete, processed, failed_last, cacheVars, callVars, notifyVars,
                   monitorVars>>

\* lines 170-175: the loop is over: log_results, then _clean_old_cache_entries
EndLoop(t) ==
    /\ pc[t] = "loop"
    /\ target_pods[t] = <<>>
    /\ pod_cache' = clean_old_cache_entries(pod_cache, clock)
    /\ pc' = [pc EXCEPT ![t] = "finally"]
    /\ UNCHANGED <<clock, lock, is_running, cleaned_pods, env_health_checks,
                   target_pods, cleaned_count, monitors, calls, outcome, listing,
                   last_delete, processed, failed_last, callVars, notifyVars, monitorVars>>

\* the exception leaves run_cleanup without passing through the finally block
CycleRaiseNoFinally(t) ==
    /\ pc[t] \in {"list", "loop"}
    /\ pc' = [pc EXCEPT ![t] = "idle"]
    /\ target_pods' = [target_pods EXCEPT ![t] = <<>>]
    /\ outcome' = [outcome EXCEPT ![t] = "failed"]
    /\ UNCHANGED <<clock, lock, is_running, cleaned_pods, env_health_checks,
                   cleaned_count, monitors, calls, listing, last_delete, processed, failed_last, cacheVars,
                   callVars, notifyVars, monitorVars>>

\* lines 177-178: an exception raised inside the try block is caught and logged
CycleRaise(t) ==
    /\ pc[t] \in {"list", "loop"}
    /\ pc' = [pc EXCEPT ![t] = "finally"]
    /\ target_pods' = [target_pods EXCEPT ![t] = <<>>]
    /\ outcome' = [outcome EXCEPT ![t] = "raised"]
    /\ UNCHANGED <<clock, lock, is_running, cleaned_pods, env_health_checks,
                   cleaned_count, monitors, calls, listing, last_delete, processed, failed_last, cacheVars,
                   callVars, notifyVars, monitorVars>>

\* the finally block emptying cleaned_pods as well
ReleaseClearing(t) ==
    /\ pc[t] = "finally"
    /\ lock = NoValue
    /\ is_running' = FALSE
    /\ cleaned_pods' = <<>>
    /\ pc' = [pc EXCEPT ![t] = "idle"]
    /\ cleaned_count' = [cleaned_count EXCEPT ![t] = 0]
    /\ outcome' = [outcome EXCEPT ![t] =
                      IF outcome[t] = "raised" THEN "failed" ELSE "none"]
    /\ listing' = [listing EXCEPT ![t] = "none"]
    /\ last_delete' = NoDelete
    /\ processed' = <<>>
    /\ failed_last' = {CacheKey(processed[i].pod) :
                          i \in {j \in DOMAIN processed :
                                    processed[j].deleted = "failed"}}
    /\ UNCHANGED <<clock, lock, env_health_checks, target_pods, monitors, calls,
                   cacheVars, callVars, notifyVars, monitorVars>>

\* lines 179-181: finally, under the lock: self.is_running = False; then
\* run_cleanup returns
Release(t) ==
    /\ pc[t] = "finally"
    /\ lock = NoValue
    /\ is_running' = FALSE
    /\ pc' = [pc EXCEPT ![t] = "idle"]
    /\ cleaned_count' = [cleaned_count EXCEPT ![t] = 0]
    /\ outcome' = [outcome EXCEPT ![t] =
                      IF outcome[t] = "raised" THEN "failed" ELSE "none"]
    /\ listing' = [listing EXCEPT ![t] = "none"]
    /\ last_delete' = NoDelete
    /\ processed' = <<>>
    /\ failed_last' = {CacheKey(processed[i].pod) :
                          i \in {j \in DOMAIN processed :
                                    processed[j].deleted = "failed"}}
    /\ UNCHANGED <<clock, lock, cleaned_pods, env_health_checks, target_pods,
                   monitors, calls, cacheVars, callVars, notifyVars, monitorVars>>

Next ==
    \/ ClockTick
    \/ \E t \in Callers : GuardEnter(t)
    \/ \E t \in Callers : GuardTest(t)
    \/ \E t \in Callers : GetPods(t)
    \/ \E t \in Callers : ProcessPod(t)
    \/ \E t \in Callers : EndLoop(t)
    \/ \E t \in Callers : CycleRaise(t)
    \/ \E t \in Callers : Release(t)

Spec == Init /\ [][Next]_vars

\* the scheduler runs every thread that can take a step; nothing obliges a new
\* call of run_cleanup, an exception or the clock
CycleStep(t) ==
    GuardTest(t) \/ GetPods(t) \/ ProcessPod(t) \/ EndLoop(t) \/ Release(t)

FairSpec == Spec /\ \A t \in Callers : WF_vars(CycleStep(t))

(***************************************************************************)
(* The cleanup cycle: single-flight guard                                  *)
(***************************************************************************)
\* a caller is between the assignment is_running = True and its reset
InCycle(t) == pc[t] \in {"list", "loop", "finally"}

\* C1: at most one run_cleanup call is inside the cycle (between setting
\* is_running and resetting it) at any time, for every interleaving of callers
C1_SingleFlight == Cardinality({t \in Callers : InCycle(t)}) <= 1

\* C1 witness: one caller is inside the cycle while the other is at the guard
C1_Witness == \E t, u \in Callers : t # u /\ pc[t] = "loop" /\ pc[u] = "guard"

\* C2: a call that finds a cycle in progress returns in its next step, whatever
\* the other caller does, with no pods attempted and with is_running,
\* cleaned_pods, pod_cache, the listings and the deletes left as they were
C2_SkipIsInert ==
    /\ [](\A t \in Callers :
            (pc[t] = "guard" /\ is_running) => ENABLED GuardTest(t))
    /\ [][\A t \in Callers :
            (pc[t] = "guard" /\ is_running /\ pc'[t] # "guard")
                => /\ pc'[t] = "idle"
                   /\ outcome'[t] = "skipped"
                   /\ target_pods'[t] = <<>>
                   /\ cleaned_count'[t] = 0
                   /\ UNCHANGED <<is_running, cleaned_pods, pod_cache, listing,
                                  last_delete, monitors>>]_vars

\* C2 witness: a call has returned skipped while the other caller's cycle, with
\* pods already cleaned, is still in progress
C2_Witness ==
    \E t, u \in Callers :
        /\ t # u
        /\ outcome[t] = "skipped" /\ pc[t] = "idle"
        /\ pc[u] = "loop" /\ cleaned_pods # <<>>

\* C3: a caller inside the cycle always leaves it with is_running reset, also
\* after an exception; is_running is never left set with no cycle in progress,
\* so a later call is not skipped because of a cycle that has ended
C3_GuardReleased ==
    /\ \A t \in Callers : InCycle(t) ~> (pc[t] = "idle" /\ ~InCycle(t))
    /\ [](is_running <=> \E t \in Callers : InCycle(t))

\* C3 witness: a cycle has ended with an exception and the other caller's later
\* call has taken the guard
C3_Witness ==
    \E t, u \in Callers :
        /\ t # u
        /\ outcome[t] = "failed" /\ pc[t] = "idle"
        /\ outcome[u] = "running" /\ pc[u] = "list"

\* C4: no delete is issued for a pod whose phase is Running in the listing the
\* cycle works on
C4_NoDeleteOfRunning ==
    \A i \in DOMAIN last_delete : last_delete[i].pod.phase # "Running"

\* C5: no delete is issued for a pod in an excluded namespace
C5_NoDeleteInExcluded ==
    \A i \in DOMAIN last_delete :
        last_delete[i].pod.namespace \notin excluded_namespaces

(***************************************************************************)
(* The decision cache driven directly: should_clean_pod and                *)
(* _clean_old_cache_entries called by any caller at any time               *)
(***************************************************************************)
EntryOf(cache, key) == IF key \in DOMAIN cache THEN <<cache[key]>> ELSE <<>>

\* a call of should_clean_pod(pod), with what it saw and what it did
Lookup(pod) ==
    LET key == CacheKey(pod)
        decision == should_clean_pod(pod, pod_cache, clock)
        this == [now |-> clock, result |-> decision.result]
    IN /\ pod_cache' = decision.cache
       /\ call' = <<[pod |-> pod, now |-> clock, result |-> decision.result,
                     evaluated |-> decision.evaluated,
                     entry |-> EntryOf(pod_cache, key),
                     entry_after |-> EntryOf(decision.cache, key),
                     cache_unchanged |-> (decision.cache = pod_cache),
                     prev_asked |-> written[key].asked,
                     prev_evaluated |-> written[key].evaluated]>>
       /\ written' = [written EXCEPT ![key] =
                        [asked |-> <<this>>,
                         evaluated |-> IF decision.evaluated THEN <<this>>
                                       ELSE written[key].evaluated]]
       /\ lookups' = lookups + 1
       /\ UNCHANGED <<clock, cleanerVars, notifyVars, monitorVars>>

LookupAny ==
    /\ lookups < MaxLookups
    /\ \E pod \in ClusterPods : Lookup(pod)

Sweep ==
    /\ pod_cache' = clean_old_cache_entries(pod_cache, clock)
    /\ UNCHANGED <<clock, cleanerVars, callVars, notifyVars, monitorVars>>

CacheNext == LookupAny \/ Sweep \/ ClockTick

CacheSpec == Init /\ [][CacheNext]_vars

(***************************************************************************)
(* The classifier on every snapshot: one should_clean_pod call, on an      *)
(* empty cache or on a cache holding an entry written at time 0            *)
(***************************************************************************)
\* decisions the cache can hold for a key: should_clean_pod never stores
\* True for a kube-system pod
StorableDecisions(key) == IF SkippedNamespace(key[1]) THEN {FALSE} ELSE BOOLEAN

ClassifyInit ==
    /\ clock \in {Tick, 2 * Tick}
    /\ clock <= MaxTime
    /\ lock = NoValue
    /\ is_running = FALSE
    /\ cleaned_pods = <<>>
    /\ \/ pod_cache = EmptyMap
       \/ \E key \in Keys : \E d \in StorableDecisions(key) :
            pod_cache = CachePut(EmptyMap, key, d, 0)
    /\ sent_notifications = EmptyMap
    /\ env_health_checks = TRUE
    /\ pc = [t \in Callers |-> "idle"]
    /\ target_pods = [t \in Callers |-> <<>>]
    /\ cleaned_count = [t \in Callers |-> 0]
    /\ monitors = <<>>
    /\ calls = 0
    /\ outcome = [t \in Callers |-> "none"]
    /\ listing = [t \in Callers |-> "none"]
    /\ last_delete = NoDelete
    /\ call = NoCall
    /\ written = [k \in Keys |-> [asked |-> <<>>, evaluated |-> <<>>]]
    /\ lookups = 0
    /\ notif = NoNotif
    /\ attempts = [k \in Keys |-> <<>>]
    /\ processed = <<>>
    /\ fetched = <<>>
    /\ failed_last = {}

ClassifyOnce ==
    /\ lookups = 0
    /\ \E pod \in Snapshots : Lookup(pod)

ClassifySpec == ClassifyInit /\ [][ClassifyOnce]_vars

(***************************************************************************)
(* The classifier and the decision cache                                   *)
(***************************************************************************)
\* the call found no entry it may use: none, or one aged cache_ttl or more
NoUnexpiredEntry(c) ==
    \A i \in DOMAIN c.entry : c.now - c.entry[i].time >= cache_ttl

\* the ordered rules of the classifier, Cleanable being TRUE
RuleDecision(pod) ==
    CASE pod.phase = "Running" -> FALSE
      [] pod.phase = "Pending"
           /\ \E i \in DOMAIN pod.init_container_statuses :
                 pod.init_container_statuses[i] = "running" -> FALSE
      [] pod.phase = "Pending"
           /\ \E i \in DOMAIN pod.init_container_statuses :
                 pod.init_container_statuses[i] = "terminated1" -> FALSE
      [] pod.phase = "Pending"
           /\ \E i \in DOMAIN pod.container_statuses :
                 pod.container_statuses[i] \in
                     {"PodInitializing", "ContainerCreating"} -> FALSE
      [] OTHER -> TRUE

\* C6: outside the excluded namespaces and with no unexpired cache entry,
\* should_clean_pod returns the decision of the ordered first-match rules
C6_RulesDecide ==
    \A i \in DOMAIN call :
        (call[i].pod.namespace \notin excluded_namespaces
            /\ NoUnexpiredEntry(call[i]))
        => call[i].result = RuleDecision(call[i].pod)

\* C6 witness: a Pending pod whose first init container exited with 0 and whose
\* second exited with non-zero is decided Healthy over an expired Cleanable entry
C6_Witness ==
    \E i \in DOMAIN call :
        /\ call[i].pod.namespace = "default"
        /\ call[i].pod.phase = "Pending"
        /\ call[i].pod.init_container_statuses = <<"terminated0", "terminated1">>
        /\ call[i].entry # <<>> /\ call[i].entry[1].result
        /\ NoUnexpiredEntry(call[i])
        /\ ~call[i].result

\* C7 as claimed: a call less than cache_ttl after the previous call for the same
\* identity returns that call's decision, evaluates nothing and rewrites nothing
C7_Original ==
    \A i \in DOMAIN call : \A j \in DOMAIN call[i].prev_asked :
        call[i].now - call[i].prev_asked[j].now < cache_ttl
        => /\ call[i].result = call[i].prev_asked[j].result
           /\ ~call[i].evaluated
           /\ call[i].cache_unchanged

\* C7 amended: a call less than cache_ttl after the latest call for the same
\* identity that evaluated the rules (the one that wrote the entry) returns that
\* call's decision, evaluates nothing and leaves the cache as it was
C7_WithinTtlOfWrite ==
    \A i \in DOMAIN call : \A j \in DOMAIN call[i].prev_evaluated :
        call[i].now - call[i].prev_evaluated[j].now < cache_ttl
        => /\ call[i].result = call[i].prev_evaluated[j].result
           /\ ~call[i].evaluated
           /\ call[i].cache_unchanged

\* C7 witness: within the time to live the stored decision is returned for a
\* snapshot the rules would now decide differently
C7_Witness ==
    \E i \in DOMAIN call : \E j \in DOMAIN call[i].prev_evaluated :
        /\ call[i].now - call[i].prev_evaluated[j].now < cache_ttl
        /\ call[i].now > call[i].prev_evaluated[j].now
        /\ ~call[i].evaluated
        /\ call[i].result # EvaluateRules(call[i].pod)

\* C8: a call that finds an entry aged cache_ttl or more evaluates the rules on
\* the snapshot passed in, returns that decision and stores (decision, now)
C8_ExpiredRecomputed ==
    \A i \in DOMAIN call : \A j \in DOMAIN call[i].entry :
        call[i].now - call[i].entry[j].time >= cache_ttl
        => /\ call[i].evaluated
           /\ call[i].result = EvaluateRules(call[i].pod)
           /\ call[i].entry_after =
                <<[result |-> call[i].result, time |-> call[i].now]>>

\* C8 witness: an entry aged exactly cache_ttl is replaced by the opposite decision
C8_Witness ==
    \E i \in DOMAIN call : \E j \in DOMAIN call[i].entry :
        /\ call[i].now - call[i].entry[j].time = cache_ttl
        /\ call[i].result # call[i].entry[j].result

(***************************************************************************)
(* NotificationManager.send_notification                                   *)
(***************************************************************************)
\* line 21: a notification for the key was sent less than the cooldown ago
InCooldown(sent, pod_key, now) ==
    /\ pod_key \in DOMAIN sent
    /\ now - sent[pod_key] < notification_cooldown

\* _send_prometheus_alert with _push_to_pushgateway or
\* _update_prometheus_metrics: what record of the event is left behind.
\* An ImportError is swallowed with a warning; any other failure is re-raised
\* and answered with _send_log_notification
RecordLeft(transport) ==
    CASE transport = "delivered" -> "transport"
      [] transport = "import_error" -> "none"
      [] OTHER -> "log"

\* transport attempts made so far, over all pod identities
AttemptsMade ==
    Cardinality(UNION {{<<k, i>> : i \in DOMAIN attempts[k]} : k \in Keys})

TransportOutcomes == {"delivered", "import_error", "error"}

\* lines 56-61 with the except branch returning False instead of falling back
send_prometheus_alert_no_fallback(transport) ==
    [returned |-> transport # "error", raised |-> FALSE,
     recorded |-> IF transport = "error" THEN "none" ELSE RecordLeft(transport)]

\* _send_prometheus_alert: the transport is tried; "Prometheus alert sent" and
\* True follow when the transport call returns, and any exception it raises is
\* answered by _send_log_notification, which returns True
send_prometheus_alert(transport) ==
    [returned |-> TRUE, raised |-> FALSE, recorded |-> RecordLeft(transport)]

\* lines 25-30: the result of _send_prometheus_alert is returned; had it raised,
\* the except branch would answer with _send_log_notification
AlertOrLog(transport) ==
    LET r == send_prometheus_alert(transport)
    IN  IF r.raised
        THEN [returned |-> TRUE, raised |-> FALSE, recorded |-> "log"]
        ELSE r

\* the body of send_notification(pod_info, ...) for the pod of pod_key: the
\* code stores nothing in sent_notifications
send_notification(pod_key) ==
    /\ IF InCooldown(sent_notifications, pod_key, clock)
       THEN /\ notif' = <<[key |-> pod_key, now |-> clock, suppressed |-> TRUE,
                           returned |-> FALSE, raised |-> FALSE,
                           recorded |-> "none"]>>
            /\ UNCHANGED attempts
       ELSE \E transport \in TransportOutcomes :
            LET r == AlertOrLog(transport)
            IN  /\ notif' = <<[key |-> pod_key, now |-> clock,
                               suppressed |-> FALSE, returned |-> r.returned,
                               raised |-> r.raised, recorded |-> r.recorded]>>
                /\ attempts' = [attempts EXCEPT ![pod_key] = Append(@, clock)]
    /\ UNCHANGED sent_notifications

\* a call of send_notification, as tests/test_prometheus.py makes it
SendNotification(pod_key) ==
    /\ AttemptsMade < MaxNotify
    /\ send_notification(pod_key)
    /\ UNCHANGED <<clock, cleanerVars, cacheVars, callVars, monitorVars>>

\* the cooldown goes by
CooldownPasses ==
    /\ clock < notification_cooldown
    /\ clock' = clock + notification_cooldown
    /\ UNCHANGED <<cleanerVars, cacheVars, callVars, notifyVars, monitorVars>>

NotifyNext ==
    \/ \E pod_key \in Keys : SendNotification(pod_key)
    \/ ClockTick
    \/ CooldownPasses

NotifySpec == Init /\ [][NotifyNext]_vars

(***************************************************************************)
(* NotificationManager.check_pod_health_after_restart                      *)
(***************************************************************************)
\* container_status of a fetched pod: ready, and state None, running,
\* terminated or waiting
ReadStates == {"none", "running", "terminated", "waiting"}
ReadStatuses == [ready : BOOLEAN, state : ReadStates]

\* the phases a fetched pod is seen in
ReadPhases == {"Running", "Pending"}

\* _get_pod returned None: the pod is not there, or the read failed
NotFound == [kind |-> "none", phase |-> NoValue, container_statuses |-> <<>>]
\* the check raised: line 153
CheckRaised == [kind |-> "raise", phase |-> NoValue, container_statuses |-> <<>>]

\* every outcome of one fetch within the bounds
ReadResults ==
    {NotFound, CheckRaised} \cup
    {[kind |-> "pod", phase |-> ph, container_statuses |-> cs] :
        ph \in ReadPhases, cs \in SeqsUpTo(ReadStatuses, MaxContainers)}

\* the outcomes of a fetch that carry no container status: nothing, an
\* exception, or a pod without container statuses
PlainReads == {r \in ReadResults : r.container_statuses = <<>>}

\* _is_pod_healthy with the readiness of the containers left out
is_pod_healthy_ignoring_ready(pod) ==
    /\ pod.phase = "Running"
    /\ \A i \in DOMAIN pod.container_statuses :
          pod.container_statuses[i].state \notin {"waiting", "terminated"}

\* _is_pod_healthy
is_pod_healthy(pod) ==
    /\ pod.phase = "Running"
    /\ \A i \in DOMAIN pod.container_statuses :
          /\ pod.container_statuses[i].ready
          /\ pod.container_statuses[i].state \notin {"waiting", "terminated"}

\* a fetch that returned no pod taken for a healthy pod
CheckVerdictMissingIsHealthy(r) ==
    IF r.kind # "pod" \/ is_pod_healthy(r) THEN "healthy" ELSE "continue"

\* lines 141-153: what one check makes of the fetch: return True, or go on
CheckVerdict(r) ==
    IF r.kind = "pod" /\ is_pod_healthy(r) THEN "healthy" ELSE "continue"

\* the loop going round once more than max_checks allows
LoopOpenOneMore(m) == m.check_count <= m.max_checks

\* line 134: for check_count in range(max_checks)
LoopOpen(m) == m.check_count < m.max_checks

\* lines 134-153: one round of the loop of monitor i: sleep, fetch, judge;
\* the fetch returns one of results
MonitorCheckOf(i, results) ==
    /\ monitors[i].state = "checking"
    /\ LoopOpen(monitors[i])
    /\ \E r \in results :
        /\ fetched' = <<r>>
        /\ monitors' = [monitors EXCEPT
               ![i].check_count = @ + 1,
               ![i].state = IF CheckVerdict(r) = "healthy" THEN "healthy" ELSE @]
    /\ UNCHANGED <<clock, lock, is_running, cleaned_pods, env_health_checks, pc,
                   target_pods, cleaned_count, calls, outcome, listing,
                   last_delete, processed, failed_last, cacheVars, callVars, notifyVars>>

\* one round of the loop with send_notification called after every check
\* that did not find the pod healthy
MonitorCheckNotifying(i) ==
    /\ monitors[i].state = "checking"
    /\ LoopOpen(monitors[i])
    /\ \E r \in ReadResults :
        /\ fetched' = <<r>>
        /\ IF CheckVerdict(r) = "healthy"
           THEN /\ monitors' = [monitors EXCEPT ![i].check_count = @ + 1,
                                                ![i].state = "healthy"]
                /\ UNCHANGED notifyVars
           ELSE /\ monitors' = [monitors EXCEPT ![i].check_count = @ + 1,
                                                ![i].notified = @ + 1]
                /\ send_notification(CacheKey(monitors[i]))
    /\ UNCHANGED <<clock, lock, is_running, cleaned_pods, env_health_checks, pc,
                   target_pods, cleaned_count, calls, outcome, listing,
                   last_delete, processed, failed_last, cacheVars, callVars>>

\* one round of the loop, for every outcome of the fetch
MonitorCheck(i) == MonitorCheckOf(i, ReadResults)

\* lines 155-159: the loop is over: send_notification, return False
MonitorExhaust(i) ==
    /\ monitors[i].state = "checking"
    /\ ~LoopOpen(monitors[i])
    /\ send_notification(CacheKey(monitors[i]))
    /\ monitors' = [monitors EXCEPT ![i].notified = @ + 1,
                                    ![i].state = "exhausted"]
    /\ UNCHANGED <<clock, lock, is_running, cleaned_pods, env_health_checks, pc,
                   target_pods, cleaned_count, calls, outcome, listing,
                   last_delete, processed, failed_last, cacheVars, callVars, monitorVars>>

\* the pods a monitor can be started for: those a cycle can have deleted
WatchedPods ==
    {PodInfo(pod) : pod \in {p \in ClusterPods : /\ p.phase # "Running"
                                                 /\ p.namespace # "kube-system"}}

\* check_pod_health_after_restart(pod_info, k8s_client, ...) is called, as
\* _monitor_pod_health_async does in a thread of its own
StartMonitorUpTo(pod_info, cap) ==
    /\ Len(monitors) < cap
    /\ monitors' = Append(monitors, NewMonitor(pod_info))
    /\ UNCHANGED <<clock, lock, is_running, cleaned_pods, env_health_checks, pc,
                   target_pods, cleaned_count, calls, outcome, listing,
                   last_delete, processed, failed_last, cacheVars, callVars, notifyVars,
                   monitorVars>>

StartMonitor(pod_info) == StartMonitorUpTo(pod_info, MaxWatchers)

MonitorStep(i) ==
    /\ i \in DOMAIN monitors
    /\ (MonitorCheck(i) \/ MonitorExhaust(i))

MonitorNext ==
    \/ \E pod_info \in WatchedPods : StartMonitor(pod_info)
    \/ \E i \in DOMAIN monitors : MonitorCheck(i)
    \/ \E i \in DOMAIN monitors : MonitorExhaust(i)

\* monitors are started where ENABLE_HEALTH_CHECKS is 'true'
MonitorInit == Init /\ env_health_checks

MonitorSpec == MonitorInit /\ [][MonitorNext]_vars

\* a monitor thread that can take a step is scheduled in the end (time.sleep
\* returns)
FairMonitorSpec ==
    MonitorSpec /\ \A i \in 1..MaxWatchers : WF_vars(MonitorStep(i))

(***************************************************************************)
(* Several monitor threads side by side, as successive cycles start them;  *)
(* they share the one NotificationManager of the PodCleaner                *)
(***************************************************************************)
ConcurrentNext ==
    \/ \E pod_info \in WatchedPods : StartMonitorUpTo(pod_info, MaxConcurrent)
    \/ \E i \in DOMAIN monitors : MonitorCheckOf(i, PlainReads)
    \/ \E i \in DOMAIN monitors : MonitorExhaust(i)

ConcurrentSpec == MonitorInit /\ [][ConcurrentNext]_vars

(***************************************************************************)
(* main.py: the loop of main() calls run_cleanup from one thread, while the *)
(* monitor threads started by clean_pod run on their own                   *)
(***************************************************************************)
MainThread == "c1"

AsyncNext ==
    \/ GuardEnter(MainThread)
    \/ GuardTest(MainThread)
    \/ GetPods(MainThread)
    \/ ProcessPod(MainThread)
    \/ EndLoop(MainThread)
    \/ CycleRaise(MainThread)
    \/ Release(MainThread)
    \/ \E i \in DOMAIN monitors : MonitorCheckOf(i, PlainReads)
    \/ \E i \in DOMAIN monitors : MonitorExhaust(i)

AsyncSpec == Init /\ [][AsyncNext]_vars

(***************************************************************************)
(* Every thread of the process: callers of run_cleanup and monitors, the   *)
(* clock standing still                                                    *)
(***************************************************************************)
ThreadsNext ==
    \/ \E t \in Callers : GuardEnter(t)
    \/ \E t \in Callers : GuardTest(t)
    \/ \E t \in Callers : GetPods(t)
    \/ \E t \in Callers : ProcessPod(t)
    \/ \E t \in Callers : EndLoop(t)
    \/ \E t \in Callers : CycleRaise(t)
    \/ \E t \in Callers : Release(t)
    \/ \E i \in DOMAIN monitors : MonitorCheckOf(i, PlainReads)
    \/ \E i \in DOMAIN monitors : MonitorExhaust(i)

ThreadsSpec == Init /\ [][ThreadsNext]_vars

(***************************************************************************)
(* The notifier gate                                                       *)
(***************************************************************************)
\* C9: for one pod identity, two transport attempts are never less than the
\* cooldown apart, and a suppressed call returns False
C9_OneAttemptPerCooldown ==
    /\ \A k \in Keys : \A a, b \in DOMAIN attempts[k] :
          a < b => attempts[k][b] - attempts[k][a] >= notification_cooldown
    /\ \A i \in DOMAIN notif : notif[i].suppressed => ~notif[i].returned

\* C10: after a call that was not suppressed, sent_notifications holds the time
\* of the call for the pod identity
C10_AttemptRecorded ==
    \A i \in DOMAIN notif :
        ~notif[i].suppressed
        => /\ notif[i].key \in DOMAIN sent_notifications
           /\ sent_notifications[notif[i].key] = notif[i].now

\* C11: every call that the cooldown does not suppress leaves a record of the
\* failure event, delivered by the transport or written by the log fallback
C11_EventRecorded ==
    \A i \in DOMAIN notif :
        ~notif[i].suppressed => notif[i].recorded \in {"transport", "log"}

\* C12: send_notification never raises and returns True for every call that
\* the cooldown does not suppress, whatever the transport does
C12_NeverRaisesReturnsTrue ==
    \A i \in DOMAIN notif :
        /\ ~notif[i].raised
        /\ ~notif[i].suppressed => notif[i].returned

\* C12 witness: the transport has failed, the log fallback has recorded the
\* event and the call has returned True
C12_Witness ==
    \E i \in DOMAIN notif :
        /\ ~notif[i].suppressed /\ notif[i].recorded = "log"
        /\ notif[i].returned /\ ~notif[i].raised
        /\ Len(attempts[notif[i].key]) = 2

(***************************************************************************)
(* The health monitor                                                      *)
(***************************************************************************)
Terminal(m) == m.state \in {"healthy", "exhausted"}

\* C13: a monitor that never finds the pod healthy checks exactly max_checks
\* times, then calls send_notification exactly once and ends exhausted;
\* send_notification is never called before the last check has failed
C13_ExhaustedAfterAllChecks ==
    /\ \A i \in DOMAIN monitors :
        LET m == monitors[i]
        IN  /\ m.state = "exhausted"
                => m.check_count = m.max_checks /\ m.notified = 1
            /\ m.notified > 0
                => m.state = "exhausted" /\ m.check_count = m.max_checks
    /\ \A k \in Keys :
        Len(attempts[k]) =
            Cardinality({i \in DOMAIN monitors :
                            CacheKey(monitors[i]) = k /\ monitors[i].notified = 1})

\* C13 witness: a monitor has ended exhausted after max_checks checks and its
\* one notification has gone out
C13_Witness ==
    \E i \in DOMAIN monitors :
        /\ monitors[i].state = "exhausted"
        /\ monitors[i].check_count = max_checks
        /\ monitors[i].notified = 1
        /\ \E j \in DOMAIN notif : notif[j].key = CacheKey(monitors[i])

\* healthy as a reader of the pod sees it: phase Running, every container
\* ready, no container waiting or terminated
SeenHealthy(r) ==
    /\ r.kind = "pod"
    /\ r.phase = "Running"
    /\ ~ \E i \in DOMAIN r.container_statuses :
          \/ ~r.container_statuses[i].ready
          \/ r.container_statuses[i].state = "waiting"
          \/ r.container_statuses[i].state = "terminated"

\* C14: a check ends the monitor healthy exactly when the fetched pod is
\* healthy; a healthy monitor fetches no more and never calls send_notification
C14_HealthyEndsMonitor ==
    [][\A i \in DOMAIN monitors :
          /\ monitors'[i].check_count # monitors[i].check_count
              => /\ fetched' # <<>>
                 /\ monitors'[i].state = "healthy" <=> SeenHealthy(fetched'[1])
                 /\ monitors'[i].notified = 0
          /\ monitors[i].state = "healthy" => monitors'[i] = monitors[i]]_vars

\* C14 witness: the second check of a monitor found the pod Running with a
\* ready container and ended the monitor healthy
C14_Witness ==
    \E i \in DOMAIN monitors :
        /\ monitors[i].state = "healthy"
        /\ monitors[i].check_count = 2
        /\ monitors[i].notified = 0
        /\ fetched # <<>> /\ fetched[1].container_statuses # <<>>

\* C20: every monitor ends healthy or exhausted, whatever the fetches return,
\* after at most max_checks fetches
C20_MonitorTerminates ==
    /\ \A i \in 1..MaxWatchers :
          (i \in DOMAIN monitors)
              ~> (i \in DOMAIN monitors /\ Terminal(monitors[i]))
    /\ [](\A i \in DOMAIN monitors :
              monitors[i].check_count <= monitors[i].max_checks)

\* C20 witness: a monitor has ended after max_checks fetches, the last of
\* which returned a pod
C20_Witness ==
    \E i \in DOMAIN monitors :
        /\ Terminal(monitors[i])
        /\ monitors[i].check_count = max_checks
        /\ fetched # <<>> /\ fetched[1].kind = "pod"

(***************************************************************************)
(* The cleanup cycle: listing, delete loop, monitors                       *)
(***************************************************************************)
\* C15: when the filtered listing fails and the full listing answers, the
\* cycle goes on to its loop with the pods of the full listing and no error;
\* unless something else raises, it ends with every one of them processed
C15_FallbackCompletes ==
    /\ [][\A t \in Callers :
            pc[t] = "list" /\ listing'[t] = "fallback"
            => /\ pc'[t] = "loop"
               /\ outcome'[t] = "running"
               /\ \E items \in Listings : target_pods'[t] = TargetPods(items)]_vars
    /\ [](\A t \in Callers :
            listing[t] = "fallback" /\ pc[t] = "loop"
            => /\ outcome[t] = "running"
               /\ ENABLED (ProcessPod(t) \/ EndLoop(t)))
    /\ [](\A t \in Callers :
            listing[t] = "fallback" /\ pc[t] = "finally" /\ outcome[t] = "running"
            => target_pods[t] = <<>>)

\* C15 witness: a cycle on the full listing has left a Running pod alone, has
\* cleaned a Failed one and has reached its end without an error
C15_Witness ==
    \E t \in Callers :
        /\ listing[t] = "fallback" /\ pc[t] = "finally" /\ outcome[t] = "running"
        /\ Len(processed) = 2
        /\ processed[1].pod.phase = "Running" /\ ~processed[1].decision
        /\ processed[2].deleted = "ok"
        /\ cleaned_pods = <<PodInfo(processed[2].pod)>>

\* C16: when both listings fail, the cycle has no candidate, issues no delete
\* and ends reporting the failure
C16_ListingFailureReported ==
    \A t \in Callers :
        listing[t] = "failed"
        => /\ target_pods[t] = <<>>
           /\ processed = <<>>
           /\ pc[t] = "finally" => outcome[t] = "raised"

\* the iterations of the loop that the cleaned count is about: a candidate
\* outside the excluded namespaces, decided cleanable, deleted with success
CountedAsCleaned ==
    SelectSeq(processed,
              LAMBDA e : /\ e.pod.namespace \notin excluded_namespaces
                         /\ e.decision
                         /\ e.deleted = "ok")

\* C17: at the end of a cycle the cleaned count is the number of candidates
\* outside the excluded namespaces that were decided cleanable and deleted with
\* success, and cleaned_pods holds one record for each, with the listed phase
C17_CleanedCount ==
    \A t \in Callers :
        pc[t] = "finally" /\ outcome[t] = "running"
        => /\ cleaned_count[t] = Len(CountedAsCleaned)
           /\ cleaned_pods = [i \in 1..Len(CountedAsCleaned) |->
                                 PodInfo(CountedAsCleaned[i].pod)]

\* the loop iteration that a step of the cycle adds, if it adds one
Iterated == Len(processed') = Len(processed) + 1
LastIteration == processed'[Len(processed')]

\* C18: a delete that fails changes neither cleaned_pods nor the cleaned count
\* nor the monitors; the loop goes on with the candidates that follow, and the
\* cycle ends without error once all of them are processed
C18_FailedDeleteGoesOn ==
    /\ [][\A t \in Callers :
            pc[t] = "loop" /\ Iterated /\ LastIteration.deleted = "failed"
            => /\ pc'[t] = "loop"
               /\ outcome'[t] = outcome[t]
               /\ target_pods'[t] = Tail(target_pods[t])
               /\ UNCHANGED <<cleaned_pods, cleaned_count, monitors>>]_vars
    /\ [](\A t \in Callers :
            pc[t] = "loop" => ENABLED (ProcessPod(t) \/ EndLoop(t)))
    /\ [](\A t \in Callers : \A i \in DOMAIN processed :
            /\ pc[t] = "finally" /\ outcome[t] = "running"
                => target_pods[t] = <<>>
            /\ processed[i].deleted = "failed"
                => \A j \in DOMAIN cleaned_pods :
                      CacheKey(cleaned_pods[j]) # CacheKey(processed[i].pod))

\* C18 witness: the delete of the first candidate has failed, the second
\* candidate has been deleted and is the only pod recorded as cleaned
C18_Witness ==
    \E t \in Callers :
        /\ pc[t] = "finally" /\ outcome[t] = "running" /\ cleaned_count[t] = 1
        /\ Len(processed) = 2
        /\ processed[1].deleted = "failed" /\ processed[2].deleted = "ok"
        /\ cleaned_pods = <<PodInfo(processed[2].pod)>>

\* C19: a successful delete starts one monitor for the deleted pod when health
\* checks are enabled and none when they are disabled, no other step starts
\* one, and no step of the cycle depends on what the monitors are doing
C19_MonitorPerDelete ==
    /\ [][IF Iterated /\ LastIteration.deleted = "ok" /\ env_health_checks
          THEN /\ Len(monitors') = Len(monitors) + 1
               /\ SubSeq(monitors', 1, Len(monitors)) = monitors
               /\ LET m == monitors'[Len(monitors')]
                  IN  /\ CacheKey(m) = CacheKey(LastIteration.pod)
                      /\ m.state = "checking" /\ m.check_count = 0
          ELSE Len(monitors') = Len(monitors)]_vars
    /\ [](\A t \in Callers : InCycle(t) /\ lock = NoValue => ENABLED CycleStep(t))

\* C19 witness: the cycle has ended and released the guard while the monitor
\* it started, one check done, is still checking
C19_Witness ==
    /\ ~is_running /\ pc[MainThread] = "idle" /\ calls > 0
    /\ \E i \in DOMAIN monitors :
          /\ monitors[i].state = "checking"
          /\ monitors[i].check_count = 1
          /\ \E j \in DOMAIN cleaned_pods :
                CacheKey(cleaned_pods[j]) = CacheKey(monitors[i])

\* C21: a check whose fetch returns no pod, or that raises, leaves the monitor
\* checking, with one more check counted and nothing notified; once
\* max_checks checks are counted the monitor can only notify and end exhausted
C21_InconclusiveCheck ==
    /\ [][\A i \in DOMAIN monitors :
            /\ monitors'[i].check_count # monitors[i].check_count
            /\ fetched' # <<>> /\ fetched'[1].kind # "pod"
            => monitors'[i] =
                 [monitors[i] EXCEPT !.check_count = monitors[i].check_count + 1]]_vars
    /\ [](\A i \in DOMAIN monitors :
            monitors[i].state = "checking"
            /\ monitors[i].check_count = monitors[i].max_checks
            => ENABLED MonitorExhaust(i) /\ ~ENABLED MonitorCheck(i))

\* C21 witness: the last check of a monitor did not find the pod, and the
\* monitor has notified and ended exhausted
C21_Witness ==
    \E i \in DOMAIN monitors :
        /\ monitors[i].state = "exhausted" /\ monitors[i].notified = 1
        /\ fetched = <<NotFound>>
        /\ Len(attempts[CacheKey(monitors[i])]) = 1

\* C22: however the send_notification calls of several monitors of one pod
\* identity interleave, at most one transport attempt is made for the identity
\* within one cooldown window
C22_OneAttemptAmongMonitors ==
    \A k \in Keys :
        Cardinality({j \in DOMAIN attempts[k] :
                        clock - attempts[k][j] < notification_cooldown}) <= 1

(***************************************************************************)
(* The cleanup cycle: the sweep of the decision cache                      *)
(***************************************************************************)
\* the step of caller t that ends the loop: log_results, then the sweep
SweepStep(t) == pc[t] = "loop" /\ pc'[t] = "finally" /\ outcome'[t] = "running"

\* C23: the sweep at the end of a cycle removes no cache entry that was
\* written during that cycle
C23_SweepKeepsOwnEntries ==
    [][\A t \in Callers :
          SweepStep(t)
          => \A i \in DOMAIN processed :
                processed[i].evaluated
                => /\ CacheKey(processed[i].pod) \in DOMAIN pod_cache
                   /\ CacheKey(processed[i].pod) \in DOMAIN pod_cache']_vars

\* C24: the sweep removes exactly the entries that a lookup at the same
\* instant would not answer from, so that every entry left answers a lookup
C24_SweepMatchesLookup ==
    [][\A t \in Callers :
          SweepStep(t)
          => /\ DOMAIN pod_cache' =
                  {k \in DOMAIN pod_cache : CacheFresh(pod_cache[k].time, clock)}
             /\ \A k \in DOMAIN pod_cache' : pod_cache'[k] = pod_cache[k]]_vars

\* the step by which caller t leaves the try block of run_cleanup
LeavesTry(t) == pc[t] \in {"list", "loop"} /\ pc'[t] \notin {"list", "loop"}

PodsOf(iterations) == [i \in 1..Len(iterations) |-> iterations[i].pod]

\* C26: the loop takes the candidates in listing order: the pods processed so
\* far followed by the pods still to come are the candidates of the cycle at
\* every step, and a delete is issued in the iteration that classified its
\* pod, before any later candidate is classified
C26_ListingOrder ==
    /\ [][\A t \in Callers :
            /\ pc[t] = "list" /\ pc'[t] = "loop" => processed' = <<>>
            /\ pc[t] = "loop" /\ pc'[t] = "loop"
               => PodsOf(processed') \o target_pods'[t]
                    = PodsOf(processed) \o target_pods[t]]_vars
    /\ [][Iterated
          => /\ SubSeq(processed', 1, Len(processed)) = processed
             /\ IF LastIteration.decision
                THEN last_delete' =
                       <<[pod |-> LastIteration.pod,
                          success |-> LastIteration.deleted = "ok"]>>
                ELSE LastIteration.deleted = "none"
                     /\ last_delete' = last_delete]_vars

\* C26 witness: the delete of the first candidate has been issued and the
\* second, a different pod, has not been classified yet
C26_Witness ==
    \E t \in Callers :
        /\ pc[t] = "loop" /\ Len(processed) = 1 /\ Len(target_pods[t]) = 1
        /\ processed[1].deleted = "ok"
        /\ last_delete # <<>> /\ last_delete[1].pod = processed[1].pod
        /\ CacheKey(target_pods[t][1]) \notin DOMAIN pod_cache

\* cleanable as the rules have it, outside the excluded namespaces
CleanableState(pod) ==
    pod.namespace \notin excluded_namespaces /\ RuleDecision(pod)

\* C27: a cycle processes no pod identity twice, so a failed delete is not
\* retried in it; and a pod whose delete failed in the cycle before is issued
\* a delete when the cycle lists it in a cleanable state
C27_NoRetryThenNextCycle ==
    /\ [](\A i, j \in DOMAIN processed :
            i # j => CacheKey(processed[i].pod) # CacheKey(processed[j].pod))
    /\ [][Iterated /\ CacheKey(LastIteration.pod) \in failed_last
            /\ CleanableState(LastIteration.pod)
          => LastIteration.decision /\ LastIteration.deleted # "none"]_vars

\* C27 witness: the delete of a pod failed in one cycle and the next cycle,
\* answering from the cache, has deleted it
C27_Witness ==
    /\ Len(processed) = 1
    /\ CacheKey(processed[1].pod) \in failed_last
    /\ CleanableState(processed[1].pod)
    /\ ~processed[1].evaluated /\ processed[1].deleted = "ok"

(***************************************************************************)
(* cleaned_pods                                                            *)
(***************************************************************************)
\* the records of the deletes that have succeeded in the cycle in progress
SucceededSoFar ==
    LET ok == SelectSeq(processed, LAMBDA e : e.deleted = "ok")
    IN  [i \in 1..Len(ok) |-> PodInfo(ok[i].pod)]

\* C28: while a cycle is in progress cleaned_pods holds the records of its
\* successful deletes and nothing else; cleaned_pods changes only by being
\* emptied when a call takes the guard and by the append that follows a
\* successful delete, so not by a monitor, the notifier or a skipped call
C28_CleanedPodsOfLatestCycle ==
    /\ []((\E t \in Callers : InCycle(t)) => cleaned_pods = SucceededSoFar)
    /\ [][\A t \in Callers :
            pc[t] = "guard" /\ pc'[t] = "list" => cleaned_pods' = <<>>]_vars
    /\ [][cleaned_pods' # cleaned_pods
          => \/ \E t \in Callers :
                  pc[t] = "guard" /\ pc'[t] = "list" /\ cleaned_pods' = <<>>
             \/ \E t \in Callers :
                  /\ pc[t] = "loop" /\ Iterated /\ LastIteration.deleted = "ok"
                  /\ cleaned_pods' =
                       Append(cleaned_pods, PodInfo(LastIteration.pod))]_vars

\* C28 witness: the cycle has ended, the other caller's call was skipped, the
\* monitor of the deleted pod has notified, and cleaned_pods still holds the
\* record of the delete
C28_Witness ==
    /\ ~is_running /\ Len(cleaned_pods) = 1
    /\ \E u \in Callers : outcome[u] = "skipped"
    /\ \E i \in DOMAIN monitors :
          /\ monitors[i].state = "exhausted"
          /\ CacheKey(monitors[i]) = CacheKey(cleaned_pods[1])
          /\ Len(attempts[CacheKey(monitors[i])]) = 1

(***************************************************************************)
(* The decision and the history of calls                                   *)
(***************************************************************************)
\* the decision the same call obtains from a PodCleaner on which no call was
\* made before
FreshDecision(c) == should_clean_pod(c.pod, EmptyMap, c.now).result

\* C29: the decision of should_clean_pod depends on the snapshot alone: after
\* any history of calls it is the decision a cleaner without history returns
\* for the same snapshot
C29_HistoryIndependent ==
    \A i \in DOMAIN call : call[i].result = FreshDecision(call[i])

====
